---- MODULE Spec2Model ----
(***************************************************************************)
(* Model of the Prompt-Driven PDF Editor (Usman-63/AI-PDF-Editor).         *)
(*                                                                         *)
(*   src/utils.py          create_fallback_modification, validate_api_key  *)
(*   src/gemini_client.py  configure_gemini, get_llm_modifications         *)
(*   src/pdf_processor.py  extract_pdf_data, extract_simple_text,          *)
(*                         apply_modifications_to_pdf,                     *)
(*                         generate_modified_pdf                           *)
(*   src/app_refactored.py the Streamlit script: one action per user       *)
(*                         event, each action one whole run of main()      *)
(*                                                                         *)
(* Python str values are TLA+ strings; the str methods the code uses       *)
(* (lower, strip, in, replace, startswith, endswith, slicing, re.search)   *)
(* are computed character by character.  An optional value (None or x) is  *)
(* the sequence <<>> or <<x>>; bytes are <<>> for b"" and <<doc>> for the  *)
(* serialized document doc.                                                *)
(***************************************************************************)
EXTENDS Integers, Sequences, FiniteSets, TLC

VARIABLES
    uploaded_file,        \* the file_uploader widget: NoFile or a document id
    api_key,              \* the API key text_input widget
    gemini_model,         \* st.session_state.gemini_model
    pages_data,           \* st.session_state.pages_data
    modifications,        \* st.session_state.modifications
    uploaded_file_bytes,  \* st.session_state.uploaded_file_bytes
    modified_pdf_bytes,   \* st.session_state.modified_pdf_bytes
    instantiable,         \* the model names genai.GenerativeModel accepts
    temp_files,           \* temporary files left on disk (MaxTempFiles: that or more)
    model_calls,          \* model.generate_content invocations of the last run
    llm_response,         \* what get_llm_modifications returned in the last run
    event,                \* what the last script run did
    call                  \* a direct call of one function: inputs and result

sessVars == <<uploaded_file, api_key, gemini_model, pages_data, modifications,
              uploaded_file_bytes, modified_pdf_bytes, instantiable, temp_files,
              model_calls, llm_response, event>>
vars == <<sessVars, call>>

None == <<>>
Some(x) == <<x>>

(***************************************************************************)
(* Python str operations                                                   *)
(***************************************************************************)
\* s[i-1:j] in Python's 0-based half-open slicing: the characters at the
\* 1-based positions i..j, clamped to the string like a Python slice
Slice(s, i, j) ==
    LET lo == IF i < 1 THEN 1 ELSE i
        hi == IF j > Len(s) THEN Len(s) ELSE j
    IN  IF lo > hi THEN "" ELSE SubSeq(s, lo, hi)

CharAt(s, i) == Slice(s, i, i)

Upper == <<"A","B","C","D","E","F","G","H","I","J","K","L","M",
           "N","O","P","Q","R","S","T","U","V","W","X","Y","Z">>
Lowercase == <<"a","b","c","d","e","f","g","h","i","j","k","l","m",
               "n","o","p","q","r","s","t","u","v","w","x","y","z">>

LowerAt(c, ks) == IF ks = {} THEN c ELSE Lowercase[CHOOSE k \in ks : TRUE]

LowerChar(c) == LowerAt(c, {k \in 1..26 : Upper[k] = c})

RECURSIVE Lower(_)
Lower(s) == IF s = "" THEN "" ELSE LowerChar(CharAt(s, 1)) \o Lower(Tail(s))

\* p in s
Contains(s, p) ==
    \E i \in 0..(Len(s) - Len(p)) : Slice(s, i + 1, i + Len(p)) = p

StartsWith(s, p) == Len(p) <= Len(s) /\ Slice(s, 1, Len(p)) = p

EndsWith(s, p) == Len(p) <= Len(s) /\ Slice(s, Len(s) - Len(p) + 1, Len(s)) = p

IsSpace(c) == c \in {" ", "\n", "\t", "\r"}

RECURSIVE LStrip(_)
LStrip(s) == IF s # "" /\ IsSpace(CharAt(s, 1)) THEN LStrip(Tail(s)) ELSE s

RECURSIVE RStrip(_)
RStrip(s) ==
    IF s # "" /\ IsSpace(CharAt(s, Len(s)))
    THEN RStrip(Slice(s, 1, Len(s) - 1))
    ELSE s

Strip(s) == RStrip(LStrip(s))

\* str.replace(old, new): every non-overlapping occurrence, left to right;
\* an empty old matches before every character and at the end
RECURSIVE ReplaceFrom(_, _, _)
ReplaceFrom(s, old, new) ==
    IF old = ""
    THEN IF s = "" THEN new
         ELSE new \o CharAt(s, 1) \o ReplaceFrom(Tail(s), old, new)
    ELSE IF Len(s) < Len(old) THEN s
    ELSE IF StartsWith(s, old)
         THEN new \o ReplaceFrom(Slice(s, Len(old) + 1, Len(s)), old, new)
         ELSE CharAt(s, 1) \o ReplaceFrom(Tail(s), old, new)

StrReplace(s, old, new) == ReplaceFrom(s, old, new)


(***************************************************************************)
(* src/utils.py: create_fallback_modification                              *)
(***************************************************************************)
Quotes == {"'", "\""}

RECURSIVE SkipSpaces(_, _)
SkipSpaces(s, i) ==
    IF i <= Len(s) /\ IsSpace(CharAt(s, i)) THEN SkipSpaces(s, i + 1) ELSE i

RECURSIVE SkipNonQuotes(_, _)
SkipNonQuotes(s, i) ==
    IF i <= Len(s) /\ CharAt(s, i) \notin Quotes
    THEN SkipNonQuotes(s, i + 1)
    ELSE i

NoMatch == [ok |-> FALSE, group1 |-> "", group2 |-> ""]

\* The pattern  change\s+['"]([^'"]+)['"]\s+to\s+['"]([^'"]+)['"]  matched
\* with its first character at position i of q, piece by piece.  No piece can
\* match in two ways (a space is no quote, a quote ends [^'"]+), so the
\* greedy match is the only one.
\* ([^'"]+)['"] of the new text: d is the opening quote, e the closing one
MatchNewText(q, a, b, d, e) ==
    IF e = d + 1 \/ e > Len(q) THEN NoMatch
    ELSE [ok |-> TRUE, group1 |-> Slice(q, a + 1, b - 1),
          group2 |-> Slice(q, d + 1, e - 1)]

\* \s+['"] after "to", which ends at position t - 1
MatchSecondQuote(q, a, b, t, d) ==
    IF d = t \/ CharAt(q, d) \notin Quotes THEN NoMatch
    ELSE MatchNewText(q, a, b, d, SkipNonQuotes(q, d + 1))

\* \s+to after the closing quote at b
MatchTo(q, a, b, c) ==
    IF c = b + 1 \/ Slice(q, c, c + 1) # "to" THEN NoMatch
    ELSE MatchSecondQuote(q, a, b, c + 2, SkipSpaces(q, c + 2))

\* ([^'"]+)['"] of the old text: a is the opening quote, b the closing one
MatchOldText(q, a, b) ==
    IF b = a + 1 \/ b > Len(q) THEN NoMatch
    ELSE MatchTo(q, a, b, SkipSpaces(q, b + 1))

\* \s+['"] after "change", which ends at position s - 1
MatchFirstQuote(q, s, a) ==
    IF a = s \/ CharAt(q, a) \notin Quotes THEN NoMatch
    ELSE MatchOldText(q, a, SkipNonQuotes(q, a + 1))

MatchAt(q, i) ==
    IF Slice(q, i, i + 5) # "change" THEN NoMatch
    ELSE MatchFirstQuote(q, i + 6, SkipSpaces(q, i + 6))

LeftmostMatch(q, starts) ==
    IF starts = {} THEN None
    ELSE Some(MatchAt(q, CHOOSE i \in starts : \A j \in starts : i <= j))

\* re.search(pattern, q): the leftmost match, or None
ReSearch(q) == LeftmostMatch(q, {i \in 1..Len(q) : MatchAt(q, i).ok})

financial_terms ==
    <<"financial", "money", "cost", "budget", "revenue", "profit",
      "investment", "price", "fee">>

\* the test "old_text in original_text" of line 32
FallbackTextFound(old_text, original_text) == Contains(original_text, old_text)

\* lines 30-38: match is what re.search returned
FallbackReplaceMatch(original_text, match) ==
    IF match # None /\ FallbackTextFound(match[1].group1, original_text)
    THEN <<[type |-> "replace",
            original_text |-> match[1].group1,
            new_text |-> match[1].group2,
            context |-> "Found in text: " \o match[1].group1]>>
    ELSE <<>>

\* lines 26-38: q is modification_query.lower()
FallbackReplaceLowered(original_text, q) ==
    IF Contains(q, "change") /\ Contains(q, "to")
    THEN FallbackReplaceMatch(original_text, ReSearch(q))
    ELSE <<>>

FallbackReplace(original_text, modification_query) ==
    FallbackReplaceLowered(original_text, Lower(modification_query))

\* lowered is original_text.lower()
\* the keyword scan without its break: one highlight edit per keyword found
RECURSIVE FallbackHighlightAll(_, _)
FallbackHighlightAll(lowered, k) ==
    IF k > Len(financial_terms) THEN <<>>
    ELSE (IF Contains(lowered, financial_terms[k])
          THEN <<[type |-> "highlight",
                  text_to_highlight |-> financial_terms[k],
                  context |-> "Found financial term: " \o financial_terms[k],
                  reason |-> "Contains financial content"]>>
          ELSE <<>>)
         \o FallbackHighlightAll(lowered, k + 1)

RECURSIVE FallbackHighlightFrom(_, _)
FallbackHighlightFrom(lowered, k) ==
    IF k > Len(financial_terms) THEN <<>>
    ELSE IF Contains(lowered, financial_terms[k])
         THEN <<[type |-> "highlight",
                 text_to_highlight |-> financial_terms[k],
                 context |-> "Found financial term: " \o financial_terms[k],
                 reason |-> "Contains financial content"]>>
         ELSE FallbackHighlightFrom(lowered, k + 1)

FallbackHighlight(original_text, modification_query) ==
    IF Contains(Lower(modification_query), "highlight")
    THEN FallbackHighlightFrom(Lower(original_text), 1)
    ELSE <<>>

create_fallback_modification(original_text, modification_query) ==
    [modifications |-> FallbackReplace(original_text, modification_query)
                       \o FallbackHighlight(original_text, modification_query),
     summary |-> "Fallback modification created for: " \o modification_query]

(***************************************************************************)
(* src/gemini_client.py: get_llm_modifications                             *)
(***************************************************************************)
\* Python values: a dict is PyDict(record of its keys), a list is PyList(seq)
PyDict(r) == [type |-> "dict", value |-> r]
PyList(items) == [type |-> "list", value |-> items]
\* an int, str or None: repr is the value as Python prints it
PyScalar(type, repr) == [type |-> type, value |-> [repr |-> repr]]

\* A TLA+ string cannot hold the backquote character: "^" stands for it.
BackTick == "^"
Fence == BackTick \o BackTick \o BackTick

\* JSON documents a model may answer with, and what json.loads makes of them
JsonReplaceChain ==
    "{\"modifications\": [{\"type\": \"replace\", \"original_text\": \"cost\", \"new_text\": \"budget\"}, {\"type\": \"replace\", \"original_text\": \"budget\", \"new_text\": \"plan\"}], \"summary\": \"Two replacements\"}"
JsonHighlight ==
    "{\"modifications\": [{\"type\": \"highlight\", \"text_to_highlight\": \"Budget\", \"reason\": \"money\"}], \"summary\": \"One highlight\", \"humanization_approach\": \"warm\"}"
JsonMissingField ==
    "{\"modifications\": [{\"type\": \"replace\", \"new_text\": \"x\"}], \"summary\": \"Incomplete edit\"}"
JsonNoEdits == "{\"modifications\": [], \"summary\": \"Nothing to do\"}"
JsonEmptyObject == "{}"
JsonArray == "[]"
JsonNumber == "42"
JsonFenceString == "\"" \o Fence \o "\""
JsonNull == "null"

JsonDocuments ==
    {JsonReplaceChain, JsonHighlight, JsonMissingField, JsonNoEdits,
     JsonEmptyObject, JsonArray, JsonNumber, JsonFenceString, JsonNull}

JsonValue(text) ==
    CASE text = JsonReplaceChain ->
           PyDict([modifications |->
                     <<[type |-> "replace", original_text |-> "cost", new_text |-> "budget"],
                       [type |-> "replace", original_text |-> "budget", new_text |-> "plan"]>>,
                   summary |-> "Two replacements"])
      [] text = JsonHighlight ->
           PyDict([modifications |->
                     <<[type |-> "highlight", text_to_highlight |-> "Budget", reason |-> "money"]>>,
                   summary |-> "One highlight",
                   humanization_approach |-> "warm"])
      [] text = JsonMissingField ->
           PyDict([modifications |-> <<[type |-> "replace", new_text |-> "x"]>>,
                   summary |-> "Incomplete edit"])
      [] text = JsonNoEdits ->
           PyDict([modifications |-> <<>>, summary |-> "Nothing to do"])
      [] text = JsonEmptyObject -> PyDict(<<>>)
      [] text = JsonArray -> PyList(<<>>)
      [] text = JsonNumber -> PyScalar("int", "42")
      [] text = JsonFenceString -> PyScalar("str", "'" \o Fence \o "'")
      [] text = JsonNull -> PyScalar("NoneType", "None")

\* json.loads(text): the parsed value, or JSONDecodeError
JsonLoads(text) ==
    IF text \in JsonDocuments
    THEN [ok |-> TRUE, value |-> JsonValue(text)]
    ELSE [ok |-> FALSE, value |-> PyList(<<>>)]

\* lines 106-111: the three tests that remove the markdown code block markers
StripJsonFence(t) == IF StartsWith(t, Fence \o "json") THEN Slice(t, 8, Len(t)) ELSE t
StripOpenFence(t) == IF StartsWith(t, Fence) THEN Slice(t, 4, Len(t)) ELSE t
StripCloseFence(t) == IF EndsWith(t, Fence) THEN Slice(t, 1, Len(t) - 3) ELSE t

\* lines 103-113
CleanResponse(text) ==
    Strip(StripCloseFence(StripOpenFence(StripJsonFence(Strip(text)))))

ErrorResponse == PyDict([modifications |-> <<>>, summary |-> "Error occurred"])

\* A value returned is [raised, value, invocations]: whether the call raised
\* to its caller, the dict or list returned, and how often the model was
\* invoked.
\* a JSONDecodeError handler that lets the error reach the caller
OnJsonDecodeErrorRaising(original_text, modification_query) ==
    [raised |-> TRUE, invocations |-> 1, value |-> ErrorResponse]

\* what the except json.JSONDecodeError handler returns
OnJsonDecodeError(original_text, modification_query) ==
    [raised |-> FALSE, invocations |-> 1,
     value |-> PyDict(create_fallback_modification(original_text, modification_query))]

\* an outer handler that invokes the model a second time before giving up
OnInvocationErrorRetrying(original_text, modification_query) ==
    [raised |-> FALSE, invocations |-> 2, value |-> ErrorResponse]

\* what the outer except Exception handler returns
OnInvocationError(original_text, modification_query) ==
    [raised |-> FALSE, invocations |-> 1, value |-> ErrorResponse]

\* a parse step that answers a value without a "modifications" key with the
\* error response
ParsedOrFallbackValidating(original_text, modification_query, parsed) ==
    IF parsed.ok
    THEN [raised |-> FALSE, invocations |-> 1,
          value |-> IF parsed.value.type = "dict"
                       /\ "modifications" \in DOMAIN parsed.value.value
                    THEN parsed.value ELSE ErrorResponse]
    ELSE OnJsonDecodeError(original_text, modification_query)

\* lines 115-125: parsed is what json.loads did
ParsedOrFallback(original_text, modification_query, parsed) ==
    IF parsed.ok
    THEN [raised |-> FALSE, invocations |-> 1, value |-> parsed.value]
    ELSE OnJsonDecodeError(original_text, modification_query)

\* answer: what model.generate_content(prompt) does, [raises |-> TRUE] when it
\* throws and [raises |-> FALSE, text |-> response.text] otherwise
get_llm_modifications(original_text, modification_query, answer) ==
    IF answer.raises
    THEN OnInvocationError(original_text, modification_query)
    ELSE ParsedOrFallback(original_text, modification_query,
                          JsonLoads(CleanResponse(answer.text)))

\* llm_response.get("modifications", [])
GetModifications(response) ==
    IF "modifications" \in DOMAIN response.value
    THEN response.value.modifications
    ELSE <<>>

(***************************************************************************)
(* src/config.py                                                           *)
(***************************************************************************)
DEFAULT_FONT_SIZE == 12
DEFAULT_HIGHLIGHT_COLOR == <<1, 1, 0>>
DEFAULT_TEXT_COLOR == <<0, 0, 0>>
DEFAULT_MODEL_NAMES ==
    <<"gemini-2.5-flash", "gemini-2.5-flash-lite", "gemini-2.5-pro",
      "gemini-2.0-flash", "gemini-2.0-flash-lite", "gemini-1.5-pro", "gemini-pro">>

(***************************************************************************)
(* src/pdf_processor.py                                                    *)
(*                                                                         *)
(* A document is what PyMuPDF and PyPDF2 read out of its bytes:            *)
(*   [name, bad_page, pages, page_texts, text_ok]                          *)
(* pages[i] = [width, height, spans], a span = [text, bbox, size, font,    *)
(* color] with color the sRGB integer of the span; bad_page = k > 0 when   *)
(* PyMuPDF throws while page k is read, Len(pages) + 1 when it throws      *)
(* after the last page, and -1 when the bytes cannot be opened at all.     *)
(* An integer color c is stored as <<c>>, the default color as its triple. *)
(***************************************************************************)
ExtractSpan(span) ==
    [text |-> span.text,
     bbox |-> span.bbox,
     size |-> span.size,
     font |-> span.font,
     color |-> IF span.color # 0 THEN <<span.color>> ELSE DEFAULT_TEXT_COLOR]

RECURSIVE ExtractSpans(_)
ExtractSpans(spans) ==
    IF spans = <<>> THEN <<>>
    ELSE (IF Strip(Head(spans).text) # "" THEN <<ExtractSpan(Head(spans))>> ELSE <<>>)
         \o ExtractSpans(Tail(spans))

ExtractPage(doc, page_num) ==
    [page_num |-> page_num,
     page_width |-> doc.pages[page_num + 1].width,
     page_height |-> doc.pages[page_num + 1].height,
     text_blocks |-> ExtractSpans(doc.pages[page_num + 1].spans)]

\* a page loop whose failure returns the pages read so far
RECURSIVE ExtractPagesKeepingPartial(_, _, _)
ExtractPagesKeepingPartial(doc, page_num, pages_so_far) ==
    IF page_num >= Len(doc.pages) THEN pages_so_far
    ELSE IF doc.bad_page = page_num + 1 THEN pages_so_far
    ELSE ExtractPagesKeepingPartial(doc, page_num + 1,
                                    Append(pages_so_far, ExtractPage(doc, page_num)))

\* the page loop (lines 25-55) from page_num on, pages_so_far the list built;
\* doc.bad_page is the page (counted from 1) at which the library raises, 0
\* when it never does and -1 when fitz.open already raises; an exception
\* ends in the handler of lines 60-62, which returns []
RECURSIVE ExtractPages(_, _, _)
ExtractPages(doc, page_num, pages_so_far) ==
    IF page_num >= Len(doc.pages) THEN pages_so_far
    ELSE IF doc.bad_page = page_num + 1 THEN <<>>
    ELSE ExtractPages(doc, page_num + 1,
                      Append(pages_so_far, ExtractPage(doc, page_num)))

extract_pdf_data(doc) ==
    IF doc.bad_page < 0 THEN <<>> ELSE ExtractPages(doc, 0, <<>>)

RECURSIVE JoinPageTexts(_)
JoinPageTexts(texts) ==
    IF texts = <<>> THEN "" ELSE Head(texts) \o "\n" \o JoinPageTexts(Tail(texts))

extract_simple_text(doc) ==
    IF doc.text_ok
    THEN Strip(JoinPageTexts(doc.page_texts))
    ELSE "Error extracting text from PDF"

\* results of the loops: err is an exception that leaves the loop
NoOps == [err |-> FALSE, ops |-> <<>>]
OpsError == [err |-> TRUE, ops |-> <<>>]
OpsThen(first, rest) ==
    IF first.err THEN first
    ELSE IF rest.err THEN rest
    ELSE [err |-> FALSE, ops |-> first.ops \o rest.ops]

\* the test made on the text as rewritten so far
ReplaceAppliesToCurrent(target, original_text, modified_text) ==
    Contains(modified_text, target)

\* the test of line 83 that decides whether a replace edit is applied
ReplaceApplies(target, original_text, modified_text) == Contains(original_text, target)

\* str.replace that ignores letter case when it looks for old
RECURSIVE ReplaceIgnoringCase(_, _, _)
ReplaceIgnoringCase(s, old, new) ==
    IF old = "" \/ Len(s) < Len(old) THEN s
    ELSE IF StartsWith(Lower(s), Lower(old))
         THEN new \o ReplaceIgnoringCase(Slice(s, Len(old) + 1, Len(s)), old, new)
         ELSE CharAt(s, 1) \o ReplaceIgnoringCase(Tail(s), old, new)

\* the loop turn with a test and a substitution that ignore letter case
ReplaceStepIgnoringCase(mod, original_text, modified_text) ==
    IF "type" \notin DOMAIN mod THEN [err |-> TRUE, text |-> modified_text]
    ELSE IF mod.type # "replace" THEN [err |-> FALSE, text |-> modified_text]
    ELSE IF "original_text" \notin DOMAIN mod THEN [err |-> TRUE, text |-> modified_text]
    ELSE IF ~Contains(Lower(original_text), Lower(mod.original_text))
         THEN [err |-> FALSE, text |-> modified_text]
    ELSE IF "new_text" \notin DOMAIN mod THEN [err |-> TRUE, text |-> modified_text]
    ELSE [err |-> FALSE,
          text |-> ReplaceIgnoringCase(modified_text, mod.original_text, mod.new_text)]

\* the loop turn that treats a replace edit whose target the span lacks as
\* an error
ReplaceStepEnforcingTarget(mod, original_text, modified_text) ==
    IF "type" \notin DOMAIN mod THEN [err |-> TRUE, text |-> modified_text]
    ELSE IF mod.type # "replace" THEN [err |-> FALSE, text |-> modified_text]
    ELSE IF "original_text" \notin DOMAIN mod THEN [err |-> TRUE, text |-> modified_text]
    ELSE IF ~ReplaceApplies(mod.original_text, original_text, modified_text)
         THEN [err |-> TRUE, text |-> modified_text]
    ELSE IF "new_text" \notin DOMAIN mod THEN [err |-> TRUE, text |-> modified_text]
    ELSE [err |-> FALSE,
          text |-> StrReplace(modified_text, mod.original_text, mod.new_text)]

\* one turn of the replacement loop (lines 81-84) for one edit; err is the
\* KeyError of an edit that lacks a key the loop reads
ReplaceStep(mod, original_text, modified_text) ==
    IF "type" \notin DOMAIN mod THEN [err |-> TRUE, text |-> modified_text]
    ELSE IF mod.type # "replace" THEN [err |-> FALSE, text |-> modified_text]
    ELSE IF "original_text" \notin DOMAIN mod THEN [err |-> TRUE, text |-> modified_text]
    ELSE IF ~ReplaceApplies(mod.original_text, original_text, modified_text)
         THEN [err |-> FALSE, text |-> modified_text]
    ELSE IF "new_text" \notin DOMAIN mod THEN [err |-> TRUE, text |-> modified_text]
    ELSE [err |-> FALSE,
          text |-> StrReplace(modified_text, mod.original_text, mod.new_text)]

\* the replacement loop over modifications[k..] with modified_text so far
RECURSIVE ReplaceLoop(_, _, _, _)
ReplaceNext(modifications_, k, original_text, step) ==
    IF step.err THEN step
    ELSE ReplaceLoop(modifications_, k + 1, original_text, step.text)

ReplaceLoop(modifications_, k, original_text, modified_text) ==
    IF k > Len(modifications_) THEN [err |-> FALSE, text |-> modified_text]
    ELSE ReplaceNext(modifications_, k, original_text,
                     ReplaceStep(modifications_[k], original_text, modified_text))

\* lines 77-84: [err, text], text the modified_text of the block
ModifiedText(block, modifications_) ==
    ReplaceLoop(modifications_, 1, block.text, block.text)

DrawOutcomes == {"primary", "fallback", "skip"}

\* insert_text at the top-left corner of the bbox, without the size offset
DrawTextAtBoxTop(block, modified_text, how) ==
    IF Strip(modified_text) = "" \/ how = "skip" THEN <<>>
    ELSE IF how = "primary"
    THEN <<[op |-> "text", text |-> modified_text,
            x |-> block.bbox[1], y |-> block.bbox[2],
            fontsize |-> block.size, color |-> Some(block.color)]>>
    ELSE <<[op |-> "text", text |-> modified_text,
            x |-> block.bbox[1], y |-> block.bbox[2],
            fontsize |-> DEFAULT_FONT_SIZE, color |-> None]>>

\* page.insert_text for one block (lines 87-107): how is "primary" when the
\* first call succeeds, "fallback" when only the second does, "skip" when
\* both throw
DrawText(block, modified_text, how) ==
    IF Strip(modified_text) = "" \/ how = "skip" THEN <<>>
    ELSE IF how = "primary"
    THEN <<[op |-> "text", text |-> modified_text,
            x |-> block.bbox[1], y |-> block.bbox[2] + block.size,
            fontsize |-> block.size, color |-> Some(block.color)]>>
    ELSE <<[op |-> "text", text |-> modified_text,
            x |-> block.bbox[1], y |-> block.bbox[2] + DEFAULT_FONT_SIZE,
            fontsize |-> DEFAULT_FONT_SIZE, color |-> None]>>

\* a text loop in which a second failed insert_text is not caught
DrawModifiedRaising(block, modified, how) ==
    IF modified.err \/ (how = "skip" /\ Strip(modified.text) # "") THEN OpsError
    ELSE [err |-> FALSE, ops |-> DrawText(block, modified.text, how)]

DrawModified(block, modified, how) ==
    IF modified.err THEN OpsError
    ELSE [err |-> FALSE, ops |-> DrawText(block, modified.text, how)]

\* lines 76-107 for one block
BlockTextOps(block, modifications_, how) ==
    DrawModified(block, ModifiedText(block, modifications_), how)

\* the test made without folding letter case
HighlightAppliesExactCase(target, block_text) == Contains(block_text, target)

\* the test of line 114 that decides whether a highlight edit marks a block
HighlightApplies(target, block_text) == Contains(Lower(block_text), Lower(target))

\* lines 114-128 for one highlight edit and one block
DrawHighlight(mod, block, how) ==
    IF "text_to_highlight" \notin DOMAIN mod THEN OpsError
    ELSE IF ~HighlightApplies(mod.text_to_highlight, block.text) \/ how = "skip"
    THEN NoOps
    ELSE IF how = "primary"
    THEN [err |-> FALSE,
          ops |-> <<[op |-> "highlight_annot", bbox |-> block.bbox,
                     stroke |-> DEFAULT_HIGHLIGHT_COLOR]>>]
    ELSE [err |-> FALSE,
          ops |-> <<[op |-> "draw_rect", bbox |-> block.bbox,
                     color |-> DEFAULT_HIGHLIGHT_COLOR, width |-> 2]>>]

\* env: what the PDF library and the file system do during one call
\*   fails: "none" or the first call that throws ("tempfile", "new_page",
\*          "save", "read", "unlink")
\*   text[p][b], mark[p][b]: the DrawOutcomes of block b of page p
\* the text loop of page p (lines 76-107) from block b on
RECURSIVE PageTextOps(_, _, _, _, _)
PageTextOps(page_data, p, b, modifications_, env) ==
    IF b > Len(page_data.text_blocks) THEN NoOps
    ELSE OpsThen(BlockTextOps(page_data.text_blocks[b], modifications_, env.text[p][b]),
                 PageTextOps(page_data, p, b + 1, modifications_, env))

\* the texts of the blocks b.. put end to end
RECURSIVE JoinedFrom(_, _)
JoinedFrom(blocks, b) ==
    IF b > Len(blocks) THEN "" ELSE blocks[b].text \o JoinedFrom(blocks, b + 1)

\* the highlight loop that looks for the target in the text of the whole page
RECURSIVE BlockHighlightOpsPageWide(_, _, _, _, _)
BlockHighlightOpsPageWide(page_data, p, b, mod, env) ==
    IF b > Len(page_data.text_blocks) THEN NoOps
    ELSE OpsThen(DrawHighlight(mod,
                               [page_data.text_blocks[b] EXCEPT
                                   !.text = JoinedFrom(page_data.text_blocks, 1)],
                               env.mark[p][b]),
                 BlockHighlightOpsPageWide(page_data, p, b + 1, mod, env))

\* the blocks b.. of page p for one highlight edit (lines 113-128)
RECURSIVE BlockHighlightOps(_, _, _, _, _)
BlockHighlightOps(page_data, p, b, mod, env) ==
    IF b > Len(page_data.text_blocks) THEN NoOps
    ELSE OpsThen(DrawHighlight(mod, page_data.text_blocks[b], env.mark[p][b]),
                 BlockHighlightOps(page_data, p, b + 1, mod, env))

\* lines 111-128 for one edit
EditHighlightOps(page_data, p, mod, env) ==
    IF "type" \notin DOMAIN mod THEN OpsError
    ELSE IF mod.type = "highlight" THEN BlockHighlightOps(page_data, p, 1, mod, env)
    ELSE NoOps

\* the highlight loop of page p (lines 110-128) from edit k on
RECURSIVE PageHighlightOps(_, _, _, _, _)
PageHighlightOps(page_data, p, k, modifications_, env) ==
    IF k > Len(modifications_) THEN NoOps
    ELSE OpsThen(EditHighlightOps(page_data, p, modifications_[k], env),
                 PageHighlightOps(page_data, p, k + 1, modifications_, env))

\* the page made of the ops drawn on it
OutputPage(page_data, drawn) ==
    IF drawn.err THEN OpsError
    ELSE [err |-> FALSE,
          ops |-> <<[width |-> page_data.page_width,
                     height |-> page_data.page_height,
                     ops |-> drawn.ops]>>]

\* one turn of the page loop (lines 71-128): first all text, then highlights
RenderPage(page_data, p, modifications_, env) ==
    OutputPage(page_data,
               OpsThen(PageTextOps(page_data, p, 1, modifications_, env),
                       PageHighlightOps(page_data, p, 1, modifications_, env)))

\* the page loop from page p on: ops holds the output pages
RECURSIVE RenderPages(_, _, _, _)
RenderPages(pages_data_, p, modifications_, env) ==
    IF p > Len(pages_data_) THEN NoOps
    ELSE OpsThen(RenderPage(pages_data_[p], p, modifications_, env),
                 RenderPages(pages_data_, p + 1, modifications_, env))

Failed == [ok |-> FALSE, doc |-> <<>>]

\* lines 130-139: save, or the except handler
SaveDocument(rendered, env) ==
    IF rendered.err \/ env.fails = "save" THEN Failed
    ELSE [ok |-> TRUE, doc |-> rendered.ops]

\* [ok |-> the bool returned, doc |-> the pages saved to output_path]
apply_modifications_to_pdf(pages_data_, modifications_, env) ==
    IF env.fails = "new_page" /\ pages_data_ # <<>> THEN Failed
    ELSE SaveDocument(RenderPages(pages_data_, 1, modifications_, env), env)

\* lines 168-182, once the temporary file exists: applied is what
\* apply_modifications_to_pdf returned
ReadBack(applied, env) ==
    IF ~applied.ok \/ env.fails \in {"read", "unlink"}
    THEN [bytes |-> <<>>, temp_left |-> 1]
    ELSE [bytes |-> Some(applied.doc), temp_left |-> 0]

\* [bytes |-> <<>> for b"" or <<the document read back>>,
\*  temp_left |-> temporary files of this call still on disk at return]
generate_modified_pdf(pages_data_, modifications_, env) ==
    IF env.fails = "tempfile" THEN [bytes |-> <<>>, temp_left |-> 0]
    ELSE ReadBack(apply_modifications_to_pdf(pages_data_, modifications_, env), env)

(***************************************************************************)
(* The documents a user may upload                                         *)
(***************************************************************************)
NoFile == "NoFile"

ReportPdf ==
    [name |-> "report.pdf", bad_page |-> 0, text_ok |-> TRUE,
     pages |-> <<[width |-> 612, height |-> 792,
                  spans |-> <<[text |-> "Chapter 2: Background", bbox |-> <<72, 72, 300, 92>>,
                               size |-> 18, font |-> "Helvetica-Bold", color |-> 0],
                              [text |-> "  ", bbox |-> <<72, 94, 80, 98>>,
                               size |-> 11, font |-> "Helvetica", color |-> 0],
                              [text |-> "Total cost: 5", bbox |-> <<72, 100, 200, 112>>,
                               size |-> 11, font |-> "Helvetica", color |-> 255]>>]>>,
     page_texts |-> <<"Chapter 2: Background\nTotal cost: 5">>]

NotesPdf ==
    [name |-> "notes.pdf", bad_page |-> 0, text_ok |-> TRUE,
     pages |-> <<[width |-> 595, height |-> 842,
                  spans |-> <<[text |-> "Budget and cost", bbox |-> <<50, 60, 210, 74>>,
                               size |-> 12, font |-> "Times-Roman", color |-> 0]>>],
                 [width |-> 842, height |-> 595, spans |-> <<>>]>>,
     page_texts |-> <<"Budget and cost", "">>]

BrokenPdf ==
    [name |-> "broken.pdf", bad_page |-> -1, text_ok |-> FALSE,
     pages |-> <<>>, page_texts |-> <<>>]

DocNames == {"report.pdf", "notes.pdf", "broken.pdf"}

Document(name) ==
    CASE name = "report.pdf" -> ReportPdf
      [] name = "notes.pdf" -> NotesPdf
      [] name = "broken.pdf" -> BrokenPdf

(***************************************************************************)
(* What the user and the world may do in a session                         *)
(***************************************************************************)
MaxTempFiles == 2

ApiKeys == {"short-key", "AIzaSy-0123456789-abcdef"}

ModelSets == {{}, 1..Len(DEFAULT_MODEL_NAMES)}

Raises == [raises |-> TRUE, text |-> ""]
Answers(text) == [raises |-> FALSE, text |-> text]

ChapterQuery == "Change 'Chapter 2: Background' to 'Chapter 2: Fundamentals'"
CostQuery == "change 'cost' to 'fee' and highlight money"
Chatter == "Sure! Here are the edits you asked for."

\* <<prompt typed, what the model does>>
SessionPrompts ==
    {<<"", Raises>>,
     <<ChapterQuery, Raises>>,
     <<ChapterQuery, Answers(JsonReplaceChain)>>,
     <<ChapterQuery, Answers(Fence \o "json\n" \o JsonHighlight \o "\n" \o Fence)>>,
     <<ChapterQuery, Answers(JsonMissingField)>>,
     <<ChapterQuery, Answers(JsonArray)>>,
     <<ChapterQuery, Answers(Chatter)>>,
     <<CostQuery, Answers(Chatter)>>}

\* [p][b] for every block b of every page p
Positions(pages_data_, how) ==
    [p \in 1..Len(pages_data_) |->
        [b \in 1..Len(pages_data_[p].text_blocks) |-> how]]

EnvFailures == {"tempfile", "new_page", "save", "read", "unlink"}

\* in a session every draw call of one run meets the same outcome
SessionEnvs(pages_data_) ==
    {[fails |-> f, text |-> Positions(pages_data_, "primary"),
      mark |-> Positions(pages_data_, "primary")] : f \in EnvFailures}
    \cup
    {[fails |-> "none", text |-> Positions(pages_data_, how),
      mark |-> Positions(pages_data_, how)] : how \in DrawOutcomes}

(***************************************************************************)
(* src/utils.py: validate_api_key; src/gemini_client.py: configure_gemini  *)
(***************************************************************************)
validate_api_key(key) ==
    IF key = "" THEN FALSE
    ELSE IF Len(key) < 20 THEN FALSE
    ELSE TRUE

\* the first model name that can be instantiated, or None when the loop ends
\* and configure_gemini raises
configure_gemini(works) ==
    IF works = {} THEN None
    ELSE Some(DEFAULT_MODEL_NAMES[CHOOSE i \in works : \A j \in works : i <= j])

(***************************************************************************)
(* src/app_refactored.py: one script run of main() per user event          *)
(***************************************************************************)
\* render_sidebar, lines 109-114: the model the session holds after the run
SidebarModel(key, model, works) ==
    IF key # "" /\ validate_api_key(key) /\ configure_gemini(works) # None
    THEN configure_gemini(works)
    ELSE model

\* main, lines 326-338: what a run with a file in the uploader stores
LoadedBytes(file) == Some(file)
LoadedPages(file) == extract_pdf_data(Document(file))

\* lines 204-215: llm_response_ is what get_llm_modifications returned
StoreModifications(llm_response_, failed, old_modifications) ==
    IF llm_response_.value.type = "dict"
    THEN [modifications |-> GetModifications(llm_response_.value),
          response |-> Some(llm_response_.value),
          invocations |-> llm_response_.invocations,
          event |-> IF failed THEN "propose_failed" ELSE "proposed"]
    ELSE \* .get on a list: the AttributeError ends the script run
         [modifications |-> old_modifications,
          response |-> Some(llm_response_.value),
          invocations |-> llm_response_.invocations,
          event |-> "propose_crashed"]

\* render_content_editor, lines 193-217, with the button clicked
render_content_editor(simple_text, modification_query, answer, old_modifications) ==
    IF modification_query = ""
    THEN [modifications |-> old_modifications, response |-> None,
          invocations |-> 0, event |-> "no_prompt"]
    ELSE StoreModifications(
             get_llm_modifications(simple_text, modification_query, answer),
             answer.raises, old_modifications)

\* a failure branch that also throws the Edit Set away
StorePdfDroppingEdits(pages_data_, modifications_, old_pdf_bytes, generated) ==
    IF generated.bytes # <<>>
    THEN [pages_data |-> pages_data_, modifications |-> modifications_,
          modified_pdf_bytes |-> Some(generated.bytes[1]),
          temp_left |-> generated.temp_left, event |-> "generated"]
    ELSE [pages_data |-> pages_data_, modifications |-> <<>>,
          modified_pdf_bytes |-> old_pdf_bytes,
          temp_left |-> generated.temp_left, event |-> "generate_failed"]

\* lines 237-261: generated is what generate_modified_pdf returned
StorePdf(pages_data_, modifications_, old_pdf_bytes, generated) ==
    IF generated.bytes # <<>>
    THEN [pages_data |-> pages_data_, modifications |-> modifications_,
          modified_pdf_bytes |-> Some(generated.bytes[1]),
          temp_left |-> generated.temp_left, event |-> "generated"]
    ELSE [pages_data |-> pages_data_, modifications |-> modifications_,
          modified_pdf_bytes |-> old_pdf_bytes,
          temp_left |-> generated.temp_left, event |-> "generate_failed"]

\* render_pdf_generation, lines 228-261, with the button clicked
render_pdf_generation(pages_data_, modifications_, old_pdf_bytes, env) ==
    StorePdf(pages_data_, modifications_, old_pdf_bytes,
             generate_modified_pdf(pages_data_, modifications_, env))

\* the conditions under which main() shows the two buttons
CanGenerateContent ==
    /\ uploaded_file # NoFile
    /\ pages_data # <<>>
    /\ gemini_model # None

CanGeneratePdf ==
    /\ uploaded_file # NoFile
    /\ pages_data # <<>>
    /\ modifications # <<>>

AtMost(n, max) == IF n > max THEN max ELSE n

Init ==
    /\ uploaded_file = NoFile
    /\ api_key = ""
    /\ gemini_model = None
    /\ pages_data = <<>>
    /\ modifications = <<>>
    /\ uploaded_file_bytes = None
    /\ modified_pdf_bytes = None
    /\ instantiable \in ModelSets
    /\ temp_files = 0
    /\ model_calls = 0
    /\ llm_response = None
    /\ event = "start"
    /\ call = None

\* a run that presses neither button calls neither function
NoButton ==
    /\ model_calls' = 0
    /\ llm_response' = None
    /\ UNCHANGED <<instantiable, temp_files, call>>

\* the user types an API key
EnterApiKey(key) ==
    /\ key # api_key
    /\ api_key' = key
    /\ gemini_model' = SidebarModel(key, gemini_model, instantiable)
    /\ IF uploaded_file # NoFile
       THEN /\ uploaded_file_bytes' = LoadedBytes(uploaded_file)
            /\ pages_data' = LoadedPages(uploaded_file)
       ELSE UNCHANGED <<uploaded_file_bytes, pages_data>>
    /\ event' = "api_key"
    /\ NoButton
    /\ UNCHANGED <<uploaded_file, modifications, modified_pdf_bytes>>

\* the user puts another file into the uploader
UploadFile(file) ==
    /\ file # uploaded_file
    /\ uploaded_file' = file
    /\ gemini_model' = SidebarModel(api_key, gemini_model, instantiable)
    /\ uploaded_file_bytes' = LoadedBytes(file)
    /\ pages_data' = LoadedPages(file)
    /\ event' = "upload"
    /\ NoButton
    /\ UNCHANGED <<api_key, modifications, modified_pdf_bytes>>

\* the user takes the file out of the uploader: main() shows the welcome page
RemoveFile ==
    /\ uploaded_file # NoFile
    /\ uploaded_file' = NoFile
    /\ gemini_model' = SidebarModel(api_key, gemini_model, instantiable)
    /\ event' = "remove"
    /\ NoButton
    /\ UNCHANGED <<api_key, pages_data, modifications, uploaded_file_bytes,
                   modified_pdf_bytes>>

\* "Clear All Data": the four keys are deleted, st.rerun() starts the script
\* again, initialize_session_state() recreates them and main() loads the
\* file the uploader still holds
ClearAllData ==
    /\ gemini_model' = SidebarModel(api_key, gemini_model, instantiable)
    /\ modifications' = <<>>
    /\ modified_pdf_bytes' = None
    /\ IF uploaded_file # NoFile
       THEN /\ uploaded_file_bytes' = LoadedBytes(uploaded_file)
            /\ pages_data' = LoadedPages(uploaded_file)
       ELSE /\ uploaded_file_bytes' = None
            /\ pages_data' = <<>>
    /\ event' = "clear"
    /\ NoButton
    /\ UNCHANGED <<uploaded_file, api_key>>

\* what the run of a "Generate Content" click leaves behind
ContentRun(done) ==
    /\ modifications' = done.modifications
    /\ llm_response' = done.response
    /\ model_calls' = done.invocations
    /\ event' = done.event

\* what the run of a "Generate Edited PDF" click leaves behind
PdfRun(done) ==
    /\ pages_data' = done.pages_data
    /\ modifications' = done.modifications
    /\ modified_pdf_bytes' = done.modified_pdf_bytes
    /\ temp_files' = AtMost(temp_files + done.temp_left, MaxTempFiles)
    /\ event' = done.event

\* "Generate Content"
GenerateContent(modification_query, answer) ==
    /\ CanGenerateContent
    /\ ContentRun(render_content_editor(extract_simple_text(Document(uploaded_file)),
                                        modification_query, answer, modifications))
    /\ gemini_model' = SidebarModel(api_key, gemini_model, instantiable)
    /\ uploaded_file_bytes' = LoadedBytes(uploaded_file)
    /\ pages_data' = LoadedPages(uploaded_file)
    /\ UNCHANGED <<uploaded_file, api_key, modified_pdf_bytes, instantiable,
                   temp_files, call>>

\* "Generate Edited PDF"
GeneratePdf(env) ==
    /\ CanGeneratePdf
    /\ PdfRun(render_pdf_generation(LoadedPages(uploaded_file), modifications,
                                    modified_pdf_bytes, env))
    /\ gemini_model' = SidebarModel(api_key, gemini_model, instantiable)
    /\ uploaded_file_bytes' = LoadedBytes(uploaded_file)
    /\ model_calls' = 0
    /\ llm_response' = None
    /\ UNCHANGED <<uploaded_file, api_key, instantiable, call>>

Next ==
    \/ \E key \in ApiKeys : EnterApiKey(key)
    \/ \E file \in DocNames : UploadFile(file)
    \/ RemoveFile
    \/ ClearAllData
    \/ \E prompt \in SessionPrompts : GenerateContent(prompt[1], prompt[2])
    \/ \E env \in SessionEnvs(pages_data) : GeneratePdf(env)

Spec == Init /\ [][Next]_vars

TypeOK ==
    /\ uploaded_file \in DocNames \cup {NoFile}
    /\ temp_files \in 0..MaxTempFiles
    /\ model_calls \in 0..1
    /\ uploaded_file # NoFile => pages_data = LoadedPages(uploaded_file)

\* the session never started: what the direct calls below leave untouched
Idle ==
    /\ uploaded_file = NoFile
    /\ api_key = ""
    /\ gemini_model = None
    /\ pages_data = <<>>
    /\ modifications = <<>>
    /\ uploaded_file_bytes = None
    /\ modified_pdf_bytes = None
    /\ instantiable = {}
    /\ temp_files = 0
    /\ model_calls = 0
    /\ llm_response = None
    /\ event = "start"

(***************************************************************************)
(* Direct calls of the Edit Proposer: create_fallback_modification and     *)
(* get_llm_modifications on every text, instruction and model answer below *)
(***************************************************************************)
ProposeTexts ==
    {"Chapter 2: Background",
     "Intro\nChapter 2: Background\nBudget 5, fee 2",
     "chapter 2: background costs money",
     "The PRICE of Investment",
     "fee",
     "No keyword here",
     "",
     "Total cost: 5"}

ShoutedChapterQuery == "CHANGE \"Chapter 2: Background\" TO \"Chapter 2: Fundamentals\""
FeeQuery == "change 'fee' to 'cost'"

ProposeQueries ==
    {ChapterQuery, ShoutedChapterQuery, FeeQuery, CostQuery,
     "highlight financial information",
     "Please HIGHLIGHT the totals",
     "change fee to cost",
     "rewrite everything"}

\* answers that are no JSON document, fenced or not
GarbageTexts ==
    {Chatter,
     "",
     Fence,
     Fence \o "json\nnot json\n" \o Fence,
     "{\"modifications\": ["}

\* a JSON document alone, between blanks, and in a plain or a json code
\* block, with and without line breaks and blanks around it
Wrappings(json) ==
    {json,
     "  " \o json \o "\n",
     Fence \o "\n" \o json \o "\n" \o Fence,
     Fence \o json \o Fence,
     Fence \o "json\n" \o json \o "\n" \o Fence,
     "\n " \o Fence \o "json " \o json \o " " \o Fence \o " \n"}

ProposeAnswers ==
    {Raises,
     Answers(JsonNoEdits),
     Answers("  " \o Fence \o "json\n" \o JsonHighlight \o "\n" \o Fence \o "\n"),
     Answers(Fence \o "\n" \o JsonArray \o "\n" \o Fence)}
    \cup {Answers(text) : text \in GarbageTexts}
    \cup {Answers(text) : text \in UNION {Wrappings(json) : json \in JsonDocuments}}

InitPropose ==
    /\ Idle
    /\ call \in {[fn |-> "none", original_text |-> t, modification_query |-> q,
                  answer |-> Raises, result |-> None] :
                    t \in ProposeTexts, q \in ProposeQueries}

CallFallback ==
    /\ call.fn = "none"
    /\ call' = [call EXCEPT
                  !.fn = "create_fallback_modification",
                  !.result = Some([raised |-> FALSE, invocations |-> 0,
                                   value |-> PyDict(create_fallback_modification(
                                       call.original_text, call.modification_query))])]
    /\ UNCHANGED sessVars

CallGetLlm(answer) ==
    /\ call.fn = "none"
    /\ call' = [call EXCEPT
                  !.fn = "get_llm_modifications",
                  !.answer = answer,
                  !.result = Some(get_llm_modifications(
                                 call.original_text, call.modification_query, answer))]
    /\ UNCHANGED sessVars

NextPropose ==
    \/ CallFallback
    \/ \E answer \in ProposeAnswers : CallGetLlm(answer)

SpecPropose == InitPropose /\ [][NextPropose]_vars

\* the edits a finished call returned
Returned == call.result[1].value.value.modifications
ReturnedOfType(type) == SelectSeq(Returned, LAMBDA mod : mod.type = type)

(***************************************************************************)
(* Direct calls of the Edit Applicator: apply_modifications_to_pdf on the  *)
(* extracted pages of every document and every Edit Set below, under every *)
(* outcome of the draw calls; then once more on the rewritten spans        *)
(***************************************************************************)
LedgerPdf ==
    [name |-> "ledger.pdf", bad_page |-> 0, text_ok |-> TRUE,
     pages |-> <<[width |-> 300, height |-> 400,
                  spans |-> <<[text |-> "cost", bbox |-> <<10, 20, 40, 30>>,
                               size |-> 10, font |-> "Courier", color |-> 0],
                              [text |-> "budget cost", bbox |-> <<10, 40, 90, 54>>,
                               size |-> 14, font |-> "Courier", color |-> 128],
                              [text |-> "Cost of plan", bbox |-> <<10, 60, 95, 72>>,
                               size |-> 12, font |-> "Courier", color |-> 0]>>]>>,
     page_texts |-> <<"cost\nbudget cost\nCost of plan">>]

\* a sentence that a change of font splits into two spans
MemoPdf ==
    [name |-> "memo.pdf", bad_page |-> 0, text_ok |-> TRUE,
     pages |-> <<[width |-> 200, height |-> 100,
                  spans |-> <<[text |-> "The total ", bbox |-> <<10, 20, 60, 32>>,
                               size |-> 12, font |-> "Times", color |-> 0],
                              [text |-> "budget is final", bbox |-> <<60, 20, 140, 32>>,
                               size |-> 12, font |-> "Times-Bold", color |-> 0]>>]>>,
     page_texts |-> <<"The total budget is final">>]

ApplyDocuments == {ReportPdf, NotesPdf, LedgerPdf, MemoPdf}

ReplaceEdit(old, new) == [type |-> "replace", original_text |-> old, new_text |-> new]
HighlightEdit(target) == [type |-> "highlight", text_to_highlight |-> target]

ChainEdits == <<ReplaceEdit("cost", "budget"), ReplaceEdit("budget", "plan")>>
ShoutEdits == <<ReplaceEdit("cost", "COSTS")>>

MarkAndBlankEdits == <<HighlightEdit("cost"), ReplaceEdit("cost", "")>>

StraddleEdits ==
    <<ReplaceEdit("total budget", "sum"), HighlightEdit("Total Budget"),
      HighlightEdit("budget")>>

ApplyEditSets ==
    {<<>>,
     ChainEdits,
     <<ReplaceEdit("budget", "plan"), ReplaceEdit("cost", "budget")>>,
     ShoutEdits,
     <<HighlightEdit("BUDGET")>>,
     MarkAndBlankEdits,
     StraddleEdits,
     <<[type |-> "replace", new_text |-> "x"]>>,
     <<ReplaceEdit("Chapter 2: Background", "Chapter 2: Fundamentals")>>,
     <<ReplaceEdit("", "-")>>}

\* the most blocks a page of the list holds
RECURSIVE MostBlocks(_)
MostBlocks(pages_data_) ==
    IF pages_data_ = <<>> THEN 0
    ELSE IF Len(Head(pages_data_).text_blocks) > MostBlocks(Tail(pages_data_))
         THEN Len(Head(pages_data_).text_blocks)
         ELSE MostBlocks(Tail(pages_data_))

\* block b of every page meets outcome by_block[b]
PerBlock(pages_data_, by_block) ==
    [p \in 1..Len(pages_data_) |->
        [b \in 1..Len(pages_data_[p].text_blocks) |-> by_block[b]]]

ApplyEnvs(pages_data_) ==
    {[fails |-> f, text |-> Positions(pages_data_, "primary"),
      mark |-> Positions(pages_data_, "primary")] : f \in {"new_page", "save"}}
    \cup
    {[fails |-> "none", text |-> PerBlock(pages_data_, t), mark |-> PerBlock(pages_data_, m)] :
        t \in [1..MostBlocks(pages_data_) -> DrawOutcomes],
        m \in [1..MostBlocks(pages_data_) -> DrawOutcomes]}

\* the modified_text of every block: [p][b] is [err, text]
BlockTexts(pages_data_, modifications_) ==
    [p \in 1..Len(pages_data_) |->
        [b \in 1..Len(pages_data_[p].text_blocks) |->
            ModifiedText(pages_data_[p].text_blocks[b], modifications_)]]

\* the pages with every span holding the text it was given
Rewritten(pages_data_, texts) ==
    [p \in 1..Len(pages_data_) |->
        [pages_data_[p] EXCEPT !.text_blocks =
            [b \in 1..Len(pages_data_[p].text_blocks) |->
                [pages_data_[p].text_blocks[b] EXCEPT !.text = texts[p][b].text]]]]

NoEnv == [fails |-> "none", text |-> <<>>, mark |-> <<>>]

InitApply ==
    /\ Idle
    /\ call \in {[fn |-> "none", pages_data |-> extract_pdf_data(doc),
                  modifications |-> edits, env |-> NoEnv, result |-> Failed,
                  texts |-> <<>>, texts_again |-> <<>>] :
                    doc \in ApplyDocuments, edits \in ApplyEditSets}

CallApply(env) ==
    /\ call.fn = "none"
    /\ call' = [call EXCEPT
                  !.fn = "apply_modifications_to_pdf",
                  !.env = env,
                  !.result = apply_modifications_to_pdf(
                                 call.pages_data, call.modifications, env),
                  !.texts = BlockTexts(call.pages_data, call.modifications)]
    /\ UNCHANGED sessVars

\* the same Edit Set applied to the spans as the first pass rewrote them
CallApplyAgain ==
    /\ call.fn = "apply_modifications_to_pdf"
    /\ call.result.ok
    /\ call' = [call EXCEPT
                  !.fn = "applied_twice",
                  !.texts_again = BlockTexts(Rewritten(call.pages_data, call.texts),
                                             call.modifications)]
    /\ UNCHANGED sessVars

NextApply ==
    \/ \E env \in ApplyEnvs(call.pages_data) : CallApply(env)
    \/ CallApplyAgain

SpecApply == InitApply /\ [][NextApply]_vars

(***************************************************************************)
(* src/utils.py get_timestamp and src/app_refactored.py                    *)
(* render_download_section, called directly on every file name and clock   *)
(* time below                                                              *)
(***************************************************************************)
Digits == <<"0", "1", "2", "3", "4", "5", "6", "7", "8", "9">>

\* str(n) for n >= 0
RECURSIVE DecimalOf(_)
DecimalOf(n) ==
    IF n < 10 THEN Digits[n + 1]
    ELSE DecimalOf(n \div 10) \o Digits[(n % 10) + 1]

\* a strftime field: n in decimal, zero-padded on the left to width characters
RECURSIVE ZeroPadded(_, _)
ZeroPadded(text, width) ==
    IF Len(text) >= width THEN text ELSE ZeroPadded("0" \o text, width)

Field(n, width) == ZeroPadded(DecimalOf(n), width)

\* datetime.now().strftime("%Y%m%d_%H%M%S"), now the clock's reading
get_timestamp(now) ==
    Field(now.year, 4) \o Field(now.month, 2) \o Field(now.day, 2) \o "_"
    \o Field(now.hour, 2) \o Field(now.minute, 2) \o Field(now.second, 2)

\* lines 271-273: the file name of the "Download Edited PDF" button
EditedFileName(name, timestamp) ==
    "edited_" \o StrReplace(name, ".pdf", "") \o "_" \o timestamp \o ".pdf"

\* line 292: the file name of the "Download Original PDF" button
OriginalFileName(name) == "original_" \o name

\* the two download buttons, or nothing when no rendered document is held
render_download_section(name, now, modified_pdf_bytes_) ==
    IF modified_pdf_bytes_ = None THEN None
    ELSE Some([edited |-> EditedFileName(name, get_timestamp(now)),
               original |-> OriginalFileName(name),
               mime |-> "application/pdf"])

UploadNames ==
    {"report.pdf", "notes.pdf", "q3.pdf.signed.pdf", "a.pdfs.pdf", "SCAN.PDF"}

ClockTimes ==
    [year : {2024, 2026}, month : {1, 12}, day : {2, 31},
     hour : {3, 23}, minute : {4, 59}, second : {0, 5}]

InitDownload ==
    /\ Idle
    /\ call \in {[fn |-> "none", name |-> n, now |-> t, held |-> h, result |-> None] :
                    n \in UploadNames, t \in ClockTimes,
                    h \in {None, Some(<<>>)}}

CallDownload ==
    /\ call.fn = "none"
    /\ call' = [call EXCEPT
                  !.fn = "render_download_section",
                  !.result = render_download_section(call.name, call.now, call.held)]
    /\ UNCHANGED sessVars

NextDownload == CallDownload

SpecDownload == InitDownload /\ [][NextDownload]_vars

(***************************************************************************)
(* Direct calls of the Span Extractor: extract_pdf_data on every document  *)
(* of up to MaxPages pages of the kinds below, readable or failing at any  *)
(* point                                                                   *)
(***************************************************************************)
MaxPages == 3

\* a page with a blank span among its spans, a page without text, a page of
\* one span
PageKinds == {ReportPdf.pages[1], NotesPdf.pages[2], NotesPdf.pages[1]}

RECURSIVE PageLists(_)
PageLists(n) ==
    IF n = 0 THEN {<<>>}
    ELSE {Append(pages, page) : pages \in PageLists(n - 1), page \in PageKinds}

ExtractDocuments ==
    {[name |-> "scan.pdf", bad_page |-> bad, text_ok |-> TRUE, pages |-> pages,
      page_texts |-> [i \in 1..Len(pages) |-> ""]] :
        pages \in UNION {PageLists(n) : n \in 1..MaxPages},
        bad \in -1..MaxPages}

InitExtract ==
    /\ Idle
    /\ call \in {[fn |-> "none", doc |-> doc, result |-> <<>>] :
                    doc \in {d \in ExtractDocuments : d.bad_page <= Len(d.pages)}}

CallExtract ==
    /\ call.fn = "none"
    /\ call' = [call EXCEPT !.fn = "extract_pdf_data",
                            !.result = extract_pdf_data(call.doc)]
    /\ UNCHANGED sessVars

NextExtract == CallExtract

SpecExtract == InitExtract /\ [][NextExtract]_vars

(***************************************************************************)
(* Properties of the session (Spec)                                        *)
(***************************************************************************)
\* C1: after a new document is uploaded or after "Clear All Data", session
\* state holds no Edit Set and no rendered output, and the pages are those of
\* the document now in the uploader (none when there is none).
C1_UploadAndClearDiscardAll ==
    event \in {"upload", "clear"} =>
        /\ modifications = <<>>
        /\ modified_pdf_bytes = None
        /\ pages_data = (IF uploaded_file = NoFile THEN <<>>
                         ELSE LoadedPages(uploaded_file))

\* C2: a "Generate Edited PDF" run that fails leaves the page list and the
\* Edit Set as they were, and the button can be pressed again right away.
C2_FailedGenerationKeepsPagesAndEdits ==
    [][event' = "generate_failed" =>
          /\ pages_data' = pages_data
          /\ modifications' = modifications
          /\ CanGeneratePdf']_vars

C2_FailedGenerationSeen ==
    /\ event = "generate_failed"
    /\ modifications # <<>>
    /\ pages_data # <<>>
    /\ CanGeneratePdf

\* C3: no run of "Generate Edited PDF" leaves a temporary file behind,
\* whether it stored bytes or reported a failure.
C3_TempFileAlwaysRemoved ==
    [][event' \in {"generated", "generate_failed"} => temp_files' = temp_files]_vars

\* C8: when the model invocation fails, the response is the empty Edit Set
\* with the generic summary, the session's Edit Set becomes empty, the model
\* was invoked exactly once, and the run touched neither the rendered output
\* nor the temporary files.
C8_InvocationFailureEmptiesEditsOnce ==
    [][event' = "propose_failed" =>
          /\ llm_response' # None
          /\ llm_response'[1].type = "dict"
          /\ llm_response'[1].value.modifications = <<>>
          /\ llm_response'[1].value.summary = "Error occurred"
          /\ modifications' = <<>>
          /\ model_calls' = 1
          /\ modified_pdf_bytes' = modified_pdf_bytes
          /\ temp_files' = temp_files
          /\ pages_data' = pages_data]_vars

C8_InvocationFailureSeen ==
    /\ event = "propose_failed"
    /\ model_calls = 1
    /\ modifications = <<>>
    /\ llm_response # None

(***************************************************************************)
(* Properties of the Edit Proposer (SpecPropose)                           *)
(***************************************************************************)
\* the instructions of the form change '<A>' to '<B>' among ProposeQueries
ChangeInstructions ==
    {[q |-> ChapterQuery, A |-> "Chapter 2: Background", B |-> "Chapter 2: Fundamentals"],
     [q |-> ShoutedChapterQuery, A |-> "Chapter 2: Background",
      B |-> "Chapter 2: Fundamentals"],
     [q |-> FeeQuery, A |-> "fee", B |-> "cost"]}

\* C5: for an instruction change '<A>' to '<B>' and a text that contains A as
\* written, create_fallback_modification returns exactly one replace edit,
\* with original_text the lower-cased A and new_text the lower-cased B.
C5_FallbackReplacesQuotedText ==
    \A ins \in ChangeInstructions :
        (/\ call.fn = "create_fallback_modification"
         /\ call.modification_query = ins.q
         /\ Contains(call.original_text, ins.A))
        => /\ Len(ReturnedOfType("replace")) = 1
           /\ ReturnedOfType("replace")[1].original_text = Lower(ins.A)
           /\ ReturnedOfType("replace")[1].new_text = Lower(ins.B)

\* the places in the keyword list of the keywords that occur in text
KeywordsFound(text) ==
    {k \in 1..Len(financial_terms) : Contains(Lower(text), financial_terms[k])}

\* C6: for an instruction containing "highlight" in any case,
\* create_fallback_modification returns no highlight edit when no keyword
\* occurs in the text and otherwise exactly one, for the keyword found that
\* comes first in the list; the Edit Set returned has 0 to 2 edits.
C6_FallbackHighlightsFirstKeywordOnly ==
    (/\ call.fn = "create_fallback_modification"
     /\ Contains(Lower(call.modification_query), "highlight"))
    => /\ Len(Returned) \in 0..2
       /\ Len(ReturnedOfType("highlight")) <= 1
       /\ KeywordsFound(call.original_text) = {}
              => ReturnedOfType("highlight") = <<>>
       /\ KeywordsFound(call.original_text) # {}
              => /\ Len(ReturnedOfType("highlight")) = 1
                 /\ \E k \in KeywordsFound(call.original_text) :
                       /\ \A j \in KeywordsFound(call.original_text) : k <= j
                       /\ ReturnedOfType("highlight")[1].text_to_highlight
                              = financial_terms[k]

C6_SeveralKeywordsOneHighlight ==
    /\ call.fn = "create_fallback_modification"
    /\ Contains(Lower(call.modification_query), "highlight")
    /\ Cardinality(KeywordsFound(call.original_text)) >= 2
    /\ Len(ReturnedOfType("highlight")) = 1

\* C7: for a model answer that is no JSON document, fenced or not,
\* get_llm_modifications does not raise and returns a dict whose
\* "modifications" entry is a list: the fallback heuristic's Edit Set (at
\* most two replace or highlight edits under the fallback summary) or an
\* empty list under the error summary.
C7_UnparseableAnswerNeverRaises ==
    (/\ call.fn = "get_llm_modifications"
     /\ ~call.answer.raises
     /\ call.answer.text \in GarbageTexts)
    => /\ ~call.result[1].raised
       /\ call.result[1].value.type = "dict"
       /\ "modifications" \in DOMAIN call.result[1].value.value
       /\ DOMAIN Returned = 1..Len(Returned)
       /\ \/ /\ Returned = <<>>
             /\ call.result[1].value.value.summary = "Error occurred"
          \/ /\ call.result[1].value.value.summary
                    = "Fallback modification created for: " \o call.modification_query
             /\ Len(Returned) <= 2
             /\ \A i \in 1..Len(Returned) : Returned[i].type \in {"replace", "highlight"}

C7_UnparseableAnswerFellBack ==
    /\ call.fn = "get_llm_modifications"
    /\ ~call.answer.raises
    /\ call.answer.text = Chatter
    /\ ~call.result[1].raised
    /\ Returned # <<>>

(***************************************************************************)
(* Properties of the Edit Applicator (SpecApply)                           *)
(***************************************************************************)
\* the texts drawn on an output page, in drawing order
TextsDrawn(page) ==
    [i \in 1..Len(SelectSeq(page.ops, LAMBDA o : o.op = "text")) |->
        SelectSeq(page.ops, LAMBDA o : o.op = "text")[i].text]

\* one replace edit applied when the tested text contains its original_text
SubstituteIf(edit, tested, text) ==
    IF edit.type = "replace" /\ Contains(tested, edit.original_text)
    THEN StrReplace(text, edit.original_text, edit.new_text)
    ELSE text

\* the fold whose test reads the text as rewritten so far
RECURSIVE FoldOnCurrent(_, _)
FoldOnCurrent(text, edits) ==
    IF edits = <<>> THEN text
    ELSE FoldOnCurrent(SubstituteIf(Head(edits), text, text), Tail(edits))

\* the fold whose test reads the text the span had before any edit
RECURSIVE FoldOnOriginal(_, _, _)
FoldOnOriginal(original, text, edits) ==
    IF edits = <<>> THEN text
    ELSE FoldOnOriginal(original, SubstituteIf(Head(edits), original, text), Tail(edits))

\* the texts of the spans that get drawn, given the text each span folds to
RECURSIVE NonBlankDrawn(_, _)
NonBlankDrawn(folded, outcomes) ==
    IF folded = <<>> THEN <<>>
    ELSE (IF outcomes[1] = "skip" \/ Strip(folded[1]) = "" THEN <<>> ELSE <<folded[1]>>)
         \o NonBlankDrawn(Tail(folded), Tail(outcomes))

Applied == call.fn # "none" /\ call.result.ok

\* C4 as stated: the text drawn for every span is the fold of the replace
\* edits, in Edit Set order, each applied exactly when its original_text is
\* a substring of the span's CURRENT text; so [A->B, B->C] on a span with A
\* and without B draws a text containing C.
C4_FoldTestsCurrentText ==
    Applied =>
        \A p \in 1..Len(call.pages_data) :
            TextsDrawn(call.result.doc[p])
                = NonBlankDrawn(
                      [b \in 1..Len(call.pages_data[p].text_blocks) |->
                          FoldOnCurrent(call.pages_data[p].text_blocks[b].text,
                                        call.modifications)],
                      call.env.text[p])

\* C4 as the code has it: the text drawn for every span is the fold of the
\* replace edits, in Edit Set order, each substituted in the text rewritten
\* so far exactly when its original_text is a substring of the span's
\* ORIGINAL text; so [A->B, B->C] on a span with A and without B draws B.
C4_FoldTestsOriginalText ==
    Applied =>
        \A p \in 1..Len(call.pages_data) :
            TextsDrawn(call.result.doc[p])
                = NonBlankDrawn(
                      [b \in 1..Len(call.pages_data[p].text_blocks) |->
                          FoldOnOriginal(call.pages_data[p].text_blocks[b].text,
                                         call.pages_data[p].text_blocks[b].text,
                                         call.modifications)],
                      call.env.text[p])

C4_ChainStopsAfterFirstEdit ==
    /\ Applied
    /\ call.modifications = ChainEdits
    /\ \E p \in 1..Len(call.pages_data) :
          /\ \E b \in 1..Len(call.pages_data[p].text_blocks) :
                /\ Contains(call.pages_data[p].text_blocks[b].text, "cost")
                /\ ~Contains(call.pages_data[p].text_blocks[b].text, "budget")
                /\ call.env.text[p][b] # "skip"
          /\ \E i \in 1..Len(TextsDrawn(call.result.doc[p])) :
                /\ Contains(TextsDrawn(call.result.doc[p])[i], "budget")
                /\ ~Contains(TextsDrawn(call.result.doc[p])[i], "plan")

AppliedNoEdits == Applied /\ call.modifications = <<>>

SameGeometry ==
    /\ Len(call.result.doc) = Len(call.pages_data)
    /\ \A p \in 1..Len(call.pages_data) :
          /\ call.result.doc[p].width = call.pages_data[p].page_width
          /\ call.result.doc[p].height = call.pages_data[p].page_height

NoHighlightDrawn ==
    \A p \in 1..Len(call.result.doc) :
        \A i \in 1..Len(call.result.doc[p].ops) : call.result.doc[p].ops[i].op = "text"

\* C9 as stated: an empty Edit Set yields one output page per source page,
\* in order, of the same width and height, on which every span with
\* non-blank text is drawn with its text unchanged at its bounding box, and
\* no highlight mark.
C9_EmptyEditSetDrawsEverySpan ==
    AppliedNoEdits =>
        /\ SameGeometry
        /\ NoHighlightDrawn
        /\ \A p \in 1..Len(call.pages_data) :
              \A b \in 1..Len(call.pages_data[p].text_blocks) :
                  Strip(call.pages_data[p].text_blocks[b].text) # ""
                  => \E i \in 1..Len(call.result.doc[p].ops) :
                        /\ call.result.doc[p].ops[i].text
                               = call.pages_data[p].text_blocks[b].text
                        /\ call.result.doc[p].ops[i].x
                               = call.pages_data[p].text_blocks[b].bbox[1]

\* the blocks 1..b of page p whose text gets drawn
DrawnUpTo(p, b) ==
    {c \in 1..b : /\ call.env.text[p][c] # "skip"
                  /\ Strip(call.pages_data[p].text_blocks[c].text) # ""}

\* the call that draws block: its own size and color under the bbox top when
\* the first insert_text works, the default size and no color otherwise
DrawsBlock(drawn, block, how) ==
    /\ drawn.op = "text"
    /\ drawn.text = block.text
    /\ drawn.x = block.bbox[1]
    /\ how = "primary" => /\ drawn.y = block.bbox[2] + block.size
                          /\ drawn.fontsize = block.size
                          /\ drawn.color = Some(block.color)
    /\ how = "fallback" => /\ drawn.y = block.bbox[2] + DEFAULT_FONT_SIZE
                           /\ drawn.fontsize = DEFAULT_FONT_SIZE
                           /\ drawn.color = None

\* C9 as the code has it: when applying an empty Edit Set succeeds, the
\* output has one page per source page, in order, of the same width and
\* height, and no highlight mark; each page carries, in span order, one text
\* per non-blank span whose draw call was not given up, unchanged, at the
\* left edge of its bbox and one font size below its top (the default size,
\* and no color, when only the second draw attempt worked).
C9_EmptyEditSetDrawsSpansNotSkipped ==
    AppliedNoEdits =>
        /\ SameGeometry
        /\ NoHighlightDrawn
        /\ \A p \in 1..Len(call.pages_data) :
              /\ Len(call.result.doc[p].ops)
                    = Cardinality(DrawnUpTo(p, Len(call.pages_data[p].text_blocks)))
              /\ \A b \in DrawnUpTo(p, Len(call.pages_data[p].text_blocks)) :
                    DrawsBlock(call.result.doc[p].ops[Cardinality(DrawnUpTo(p, b))],
                               call.pages_data[p].text_blocks[b],
                               call.env.text[p][b])

C9_SpanSkippedAndSpanDrawnByDefault ==
    /\ AppliedNoEdits
    /\ \E p \in 1..Len(call.pages_data) :
          /\ \E b \in 1..Len(call.pages_data[p].text_blocks) : call.env.text[p][b] = "skip"
          /\ \E b \in 1..Len(call.pages_data[p].text_blocks) :
                call.env.text[p][b] = "fallback"
          /\ \E b \in 1..Len(call.pages_data[p].text_blocks) :
                call.env.text[p][b] = "primary"
          /\ Len(call.result.doc[p].ops) = 2

\* C10: for a span text t and a replace edit e, if the text that applying e
\* to t gives no longer contains e.original_text, applying e to that text
\* leaves it unchanged.
C10_ReplaceTwiceIsNoOp ==
    (/\ call.fn = "applied_twice"
     /\ Len(call.modifications) = 1
     /\ call.modifications[1].type = "replace")
    => \A p \in 1..Len(call.pages_data) :
           \A b \in 1..Len(call.pages_data[p].text_blocks) :
               ~Contains(call.texts[p][b].text, call.modifications[1].original_text)
               => call.texts_again[p][b].text = call.texts[p][b].text

C10_RewrittenSpanKeptBySecondPass ==
    /\ call.fn = "applied_twice"
    /\ call.modifications = ShoutEdits
    /\ \E p \in 1..Len(call.pages_data) :
          \E b \in 1..Len(call.pages_data[p].text_blocks) :
              /\ call.texts[p][b].text # call.pages_data[p].text_blocks[b].text
              /\ ~Contains(call.texts[p][b].text, "cost")
              /\ call.texts_again[p][b].text = call.texts[p][b].text

(***************************************************************************)
(* Properties of the download names (SpecDownload)                         *)
(***************************************************************************)
\* C11: for a file name N ending in ".pdf" and a clock time T, the edited
\* document is offered as "edited_" + N without its final ".pdf" + "_" + T as
\* YYYYMMDD_HHMMSS + ".pdf", and the input as "original_" + N.
C11_DownloadNameStripsFinalExtension ==
    (/\ call.fn = "render_download_section"
     /\ call.held # None
     /\ EndsWith(call.name, ".pdf"))
    => /\ call.result # None
       /\ call.result[1].edited
              = "edited_" \o Slice(call.name, 1, Len(call.name) - 4) \o "_"
                \o get_timestamp(call.now) \o ".pdf"
       /\ call.result[1].original = "original_" \o call.name

(***************************************************************************)
(* More properties of the Edit Applicator (SpecApply)                      *)
(***************************************************************************)
\* every span of page p, as <<p, b>>
Spans ==
    {pb \in (1..Len(call.pages_data)) \X (1..MostBlocks(call.pages_data)) :
        pb[2] <= Len(call.pages_data[pb[1]].text_blocks)}

SpanText(pb) == call.pages_data[pb[1]].text_blocks[pb[2]].text

\* the edit names a target, and the target matches no span of any page
\* under the edit's own matching rule
TargetAbsent(edit) ==
    /\ "type" \in DOMAIN edit
    /\ \/ /\ edit.type = "replace"
          /\ "original_text" \in DOMAIN edit
          /\ \A pb \in Spans : ~Contains(SpanText(pb), edit.original_text)
       \/ /\ edit.type = "highlight"
          /\ "text_to_highlight" \in DOMAIN edit
          /\ \A pb \in Spans :
                ~Contains(Lower(SpanText(pb)), Lower(edit.text_to_highlight))

WithoutEdit(edits, k) == SubSeq(edits, 1, k - 1) \o SubSeq(edits, k + 1, Len(edits))

\* C12: an edit whose target occurs in no span of any page is a no-op when
\* the Edit Set is applied: the call returns what it returns for the Edit Set
\* without that edit (same outcome, same texts, same highlight marks), and
\* an Edit Set of such edits alone is applied successfully whenever the
\* empty one is.
C12_AbsentTargetIsNoOp ==
    call.fn # "none" =>
        /\ \A k \in 1..Len(call.modifications) :
              TargetAbsent(call.modifications[k])
              => call.result = apply_modifications_to_pdf(
                                   call.pages_data,
                                   WithoutEdit(call.modifications, k), call.env)
        /\ (/\ call.env.fails = "none"
            /\ \A k \in 1..Len(call.modifications) : TargetAbsent(call.modifications[k]))
           => call.result.ok

C12_AbsentEditAmongActingOnes ==
    /\ Applied
    /\ call.modifications = ChainEdits
    /\ TargetAbsent(call.modifications[2])
    /\ ~TargetAbsent(call.modifications[1])
    /\ \E p \in 1..Len(call.pages_data) :
          \E i \in 1..Len(TextsDrawn(call.result.doc[p])) :
              Contains(TextsDrawn(call.result.doc[p])[i], "budget")

\* the highlight marks of an output page, in drawing order
MarksDrawn(page) == SelectSeq(page.ops, LAMBDA o : o.op # "text")

\* on the output page, nothing is drawn as text once a mark has been drawn
TextBeforeMarks(page) ==
    \A i \in 1..Len(page.ops) : \A j \in 1..Len(page.ops) :
        (i < j /\ page.ops[i].op # "text") => page.ops[j].op # "text"

\* <<k, b>>: highlight edit k matches span b of page p, letter case aside,
\* in the text the span had before any replace edit
Marked(p) ==
    {kb \in (1..Len(call.modifications)) \X (1..Len(call.pages_data[p].text_blocks)) :
        /\ call.modifications[kb[1]].type = "highlight"
        /\ Contains(Lower(call.pages_data[p].text_blocks[kb[2]].text),
                    Lower(call.modifications[kb[1]].text_to_highlight))}

\* C13 as stated: on each page the marks come after all the text, and a
\* span has a mark over its bounding box for every highlight edit whose
\* target is a case-insensitive substring of the span's original text,
\* whatever the replace edits did to the span.
C13_EveryMatchingSpanIsMarked ==
    Applied =>
        \A p \in 1..Len(call.pages_data) :
            /\ TextBeforeMarks(call.result.doc[p])
            /\ \A kb \in Marked(p) :
                  \E i \in 1..Len(MarksDrawn(call.result.doc[p])) :
                      MarksDrawn(call.result.doc[p])[i].bbox
                          = call.pages_data[p].text_blocks[kb[2]].bbox

\* the matches of page p whose mark was not given up
MarkedAndDrawn(p) == {kb \in Marked(p) : call.env.mark[p][kb[2]] # "skip"}

\* the matches of page p drawn no later than kb: edit by edit, span by span
MarksUpTo(p, kb) ==
    {jc \in MarkedAndDrawn(p) : jc[1] < kb[1] \/ (jc[1] = kb[1] /\ jc[2] <= kb[2])}

\* the mark of one match: the annotation, or the rectangle outline when only
\* the second attempt worked
MarksBlock(drawn, block, how) ==
    /\ drawn.bbox = block.bbox
    /\ how = "primary" => drawn.op = "highlight_annot"
    /\ how = "fallback" => drawn.op = "draw_rect"

\* C13 as the code has it: on each page the marks come after all the text;
\* the marks are, edit by edit and span by span, one mark over the bounding
\* box of the span for every highlight edit and span such that the target is
\* a case-insensitive substring of the span's original text and the two
\* draw attempts of the mark did not both fail, whatever the replace edits
\* did to the span; no other mark is drawn.
C13_MatchingSpansMarkedUnlessGivenUp ==
    Applied =>
        \A p \in 1..Len(call.pages_data) :
            /\ TextBeforeMarks(call.result.doc[p])
            /\ Len(MarksDrawn(call.result.doc[p])) = Cardinality(MarkedAndDrawn(p))
            /\ \A kb \in MarkedAndDrawn(p) :
                  MarksBlock(MarksDrawn(call.result.doc[p])[Cardinality(MarksUpTo(p, kb))],
                             call.pages_data[p].text_blocks[kb[2]],
                             call.env.mark[p][kb[2]])

C13_BlankedSpanStillMarked ==
    /\ Applied
    /\ call.modifications = MarkAndBlankEdits
    /\ \E p \in 1..Len(call.pages_data) :
          /\ Cardinality(Marked(p)) = 3
          /\ Len(MarksDrawn(call.result.doc[p])) = 2
          /\ Len(TextsDrawn(call.result.doc[p])) = 2
          /\ \E i \in 1..2 : TextsDrawn(call.result.doc[p])[i] = "Cost of plan"

\* target is found where span b of page p meets the next span, in neither
\* span alone
Straddles(target, p, b) ==
    /\ b + 1 <= Len(call.pages_data[p].text_blocks)
    /\ Contains(call.pages_data[p].text_blocks[b].text
                    \o call.pages_data[p].text_blocks[b + 1].text, target)
    /\ ~Contains(call.pages_data[p].text_blocks[b].text, target)
    /\ ~Contains(call.pages_data[p].text_blocks[b + 1].text, target)

\* the same, letter case aside
StraddlesAnyCase(target, p, b) ==
    /\ b + 1 <= Len(call.pages_data[p].text_blocks)
    /\ Contains(Lower(call.pages_data[p].text_blocks[b].text
                          \o call.pages_data[p].text_blocks[b + 1].text), Lower(target))
    /\ ~Contains(Lower(call.pages_data[p].text_blocks[b].text), Lower(target))
    /\ ~Contains(Lower(call.pages_data[p].text_blocks[b + 1].text), Lower(target))

\* how many marks lie over the bounding box of span c of page p
MarksOver(p, c) ==
    Cardinality({i \in 1..Len(MarksDrawn(call.result.doc[p])) :
                    MarksDrawn(call.result.doc[p])[i].bbox
                        = call.pages_data[p].text_blocks[c].bbox})

\* C14: an edit whose target is found only across the boundary of two
\* adjacent spans, in neither span alone, does nothing to them: a replace
\* edit leaves both spans with the text the other edits give them, and a
\* highlight edit adds no mark over either span.
C14_MatchingIsSpanLocal ==
    Applied =>
        \A p \in 1..Len(call.pages_data) :
          \A b \in 1..Len(call.pages_data[p].text_blocks) :
            \A k \in 1..Len(call.modifications) :
              /\ (/\ call.modifications[k].type = "replace"
                  /\ Straddles(call.modifications[k].original_text, p, b))
                 => \A c \in {b, b + 1} :
                        call.texts[p][c].text
                            = FoldOnOriginal(call.pages_data[p].text_blocks[c].text,
                                             call.pages_data[p].text_blocks[c].text,
                                             WithoutEdit(call.modifications, k))
              /\ (/\ call.modifications[k].type = "highlight"
                  /\ StraddlesAnyCase(call.modifications[k].text_to_highlight, p, b))
                 => \A c \in {b, b + 1} :
                        MarksOver(p, c)
                            = Cardinality({kb \in MarkedAndDrawn(p) :
                                              kb[2] = c /\ kb[1] # k})

C14_SplitSentenceLeftAlone ==
    /\ Applied
    /\ call.modifications = StraddleEdits
    /\ Len(call.pages_data) = 1
    /\ Straddles("total budget", 1, 1)
    /\ StraddlesAnyCase("Total Budget", 1, 1)
    /\ TextsDrawn(call.result.doc[1]) = <<"The total ", "budget is final">>
    /\ MarksOver(1, 1) = 0
    /\ MarksOver(1, 2) = 1

\* every edit carries the keys the loops read
WellFormed(edits) ==
    \A k \in 1..Len(edits) :
        /\ "type" \in DOMAIN edits[k]
        /\ edits[k].type = "replace"
              => {"original_text", "new_text"} \subseteq DOMAIN edits[k]
        /\ edits[k].type = "highlight" => "text_to_highlight" \in DOMAIN edits[k]

\* the blocks 1..b of page p whose rewritten text is non-blank and drawn
TextsUpTo(p, b) ==
    {c \in 1..b : /\ call.env.text[p][c] # "skip"
                  /\ Strip(call.texts[p][c].text) # ""}

\* the draw calls on the output page that write text
TextOps(page) == SelectSeq(page.ops, LAMBDA o : o.op = "text")

\* C15: a draw call that fails is contained to its span or its mark. When
\* nothing but draw calls fails, the document is still produced, with all
\* its pages; a span whose first draw fails is drawn once by the simplified
\* call (default font size, no color), a mark whose annotation fails is
\* drawn once as a rectangle outline, an item whose two attempts fail is
\* left out, and every other span and mark is drawn as if nothing had failed.
C15_DrawFailuresAreContained ==
    (/\ call.fn # "none"
     /\ call.env.fails = "none"
     /\ WellFormed(call.modifications))
    => /\ call.result.ok
       /\ Len(call.result.doc) = Len(call.pages_data)
       /\ \A p \in 1..Len(call.pages_data) :
             /\ Len(TextOps(call.result.doc[p]))
                   = Cardinality(TextsUpTo(p, Len(call.pages_data[p].text_blocks)))
             /\ \A b \in TextsUpTo(p, Len(call.pages_data[p].text_blocks)) :
                   /\ TextOps(call.result.doc[p])[Cardinality(TextsUpTo(p, b))].text
                          = call.texts[p][b].text
                   /\ TextOps(call.result.doc[p])[Cardinality(TextsUpTo(p, b))].fontsize
                          = (IF call.env.text[p][b] = "primary"
                             THEN call.pages_data[p].text_blocks[b].size
                             ELSE DEFAULT_FONT_SIZE)
                   /\ TextOps(call.result.doc[p])[Cardinality(TextsUpTo(p, b))].color
                          = (IF call.env.text[p][b] = "primary"
                             THEN Some(call.pages_data[p].text_blocks[b].color)
                             ELSE None)
             /\ Len(MarksDrawn(call.result.doc[p])) = Cardinality(MarkedAndDrawn(p))
             /\ \A kb \in MarkedAndDrawn(p) :
                   /\ MarksDrawn(call.result.doc[p])[Cardinality(MarksUpTo(p, kb))].op
                          = (IF call.env.mark[p][kb[2]] = "primary"
                             THEN "highlight_annot" ELSE "draw_rect")
                   /\ "fill" \notin
                          DOMAIN MarksDrawn(call.result.doc[p])[Cardinality(MarksUpTo(p, kb))]

C15_ItemsGivenUpOthersDrawn ==
    /\ Applied
    /\ \E p \in 1..Len(call.pages_data) :
          /\ \E b \in 1..Len(call.pages_data[p].text_blocks) :
                /\ call.env.text[p][b] = "skip"
                /\ Strip(call.texts[p][b].text) # ""
          /\ \E b \in TextsUpTo(p, Len(call.pages_data[p].text_blocks)) :
                call.env.text[p][b] = "fallback"
          /\ \E kb \in Marked(p) : call.env.mark[p][kb[2]] = "skip"
          /\ \E i \in 1..Len(MarksDrawn(call.result.doc[p])) :
                MarksDrawn(call.result.doc[p])[i].op = "draw_rect"

(***************************************************************************)
(* Properties of the Span Extractor (SpecExtract)                          *)
(***************************************************************************)
\* what the document holds for a span, its color aside
Placed(span) ==
    [text |-> span.text, bbox |-> span.bbox, size |-> span.size, font |-> span.font]

\* the spans of a source page whose text is not blank, in order
NonBlankSpans(page) == SelectSeq(page.spans, LAMBDA span : Strip(span.text) # "")

\* C16: for a readable document extract_pdf_data returns one page record
\* per page, in page order, with the page's width and height and its
\* non-blank spans in order, also for a page without text; when reading
\* fails at any point it returns the empty list.
C16_OnePageRecordPerPageOrNone ==
    call.fn = "extract_pdf_data" =>
        IF call.doc.bad_page = 0
        THEN /\ Len(call.result) = Len(call.doc.pages)
             /\ \A i \in 1..Len(call.doc.pages) :
                   /\ call.result[i].page_num = i - 1
                   /\ call.result[i].page_width = call.doc.pages[i].width
                   /\ call.result[i].page_height = call.doc.pages[i].height
                   /\ Len(call.result[i].text_blocks)
                          = Len(NonBlankSpans(call.doc.pages[i]))
                   /\ \A b \in 1..Len(call.result[i].text_blocks) :
                          Placed(call.result[i].text_blocks[b])
                              = Placed(NonBlankSpans(call.doc.pages[i])[b])
        ELSE call.result = <<>>

C16_TextlessPageKept ==
    /\ call.fn = "extract_pdf_data"
    /\ call.doc.bad_page = 0
    /\ Len(call.result) = 3
    /\ call.doc.pages[2].spans = <<>>
    /\ call.result[2].text_blocks = <<>>
    /\ call.result[2].page_width = 842
    /\ Len(call.result[3].text_blocks) < Len(call.doc.pages[3].spans)

(***************************************************************************)
(* More properties of the Edit Proposer (SpecPropose)                      *)
(***************************************************************************)
\* C17: when the model answers with a JSON document alone, in a plain code
\* block or in a json code block, blanks around it or not,
\* get_llm_modifications returns the parsed value of that document as it
\* is, whatever its shape, after one invocation.
C17_FencedJsonReturnedAsParsed ==
    \A json \in JsonDocuments :
        (/\ call.fn = "get_llm_modifications"
         /\ ~call.answer.raises
         /\ call.answer.text \in Wrappings(json))
        => /\ ~call.result[1].raised
           /\ call.result[1].invocations = 1
           /\ call.result[1].value = JsonLoads(json).value

C17_FencedIncompleteEditReturned ==
    /\ call.fn = "get_llm_modifications"
    /\ ~call.answer.raises
    /\ call.answer.text = "\n " \o Fence \o "json " \o JsonMissingField \o " " \o Fence \o " \n"
    /\ call.result[1].value.type = "dict"
    /\ call.result[1].value.value.modifications = <<[type |-> "replace", new_text |-> "x"]>>

(***************************************************************************)
(* More properties of the session (Spec)                                   *)
(***************************************************************************)
\* the condition under which main() shows the download buttons
CanDownload ==
    /\ uploaded_file # NoFile
    /\ pages_data # <<>>
    /\ modified_pdf_bytes # None

\* C18: a rendered document that the session offers for download is what
\* applying the Edit Set now held to the page list now held produces, under
\* some outcome of the draw calls.
C18_RenderedDocumentIsCurrent ==
    CanDownload =>
        \E env \in SessionEnvs(pages_data) :
            /\ apply_modifications_to_pdf(pages_data, modifications, env).ok
            /\ apply_modifications_to_pdf(pages_data, modifications, env).doc
                   = modified_pdf_bytes[1]

====
